---- MODULE Spec2Model ----
(***************************************************************************)
(* Traffic-light intersection simulation (sarah_implementation).           *)
(*                                                                         *)
(* The program is a set of SimPy processes: the signal controller          *)
(* (SystemeFeux.gerer_cycle), one arrival generator per lane               *)
(* (GenerateurVehicules.generer_voie_a / _b) and one crossing process per  *)
(* vehicle (Intersection.traverser_voie_a / _b).  They are driven by the   *)
(* event list of simpy.Environment: every step pops the earliest event     *)
(* (time, then URGENT before NORMAL, then insertion order) and resumes the *)
(* process waiting on it up to its next yield.                             *)
(*                                                                         *)
(* Time is counted in ticks of 0.05 s, so that the 0.1 s polling interval  *)
(* and the 0.1 s crossing time are 2 ticks and two vehicles can poll with  *)
(* different offsets.                                                      *)
(***************************************************************************)
EXTENDS Integers, Sequences, FiniteSets, TLC

\* ---------------------------------------------------------------- bounds
MaxVeh == 2        \* vehicles created per lane before the generator is cut off
MaxGap == 2        \* largest inter-arrival gap drawn, in ticks
MaxTime == 8       \* largest limit given to env.run(until=...)
MaxDuree == 2      \* largest phase duration of the controller-only runs
MaxCycles == 3     \* cap on nombre_cycles (a cycle of length 0 never lets time advance)

\* ------------------------------------------------------ program constants
PollTicks == 2     \* yield self.env.timeout(0.1) while the light is not green
CrossTicks == 2    \* yield self.env.timeout(0.1) inside the with-block
Capacity == 1      \* simpy.Resource(env, capacity=1)
None == -1         \* Vehicule.temps_depart: float = None

Lanes == {"A", "B"}
VehIds == 1..MaxVeh

VARIABLES
    now,                      \* env.now
    queue,                    \* env._queue, in the order step() pops it
    running,                  \* TRUE while env.run(until=...) is stepping
    erreur,                   \* the exception env.run has raised, "" if none
    config,                   \* ConfigurationFeux
    etat_actuel,              \* SystemeFeux.etat_actuel
    nombre_cycles,            \* SystemeFeux.nombre_cycles
    feu_a, feu_b, feu_pietons,\* Feu.couleur of the three lights
    historique_etats,         \* SystemeFeux.historique_etats
    pc_feux,                  \* the yield gerer_cycle is suspended at
    pc_gen,                   \* per lane: the yield generer_voie_x is suspended at
    compteur,                 \* per lane: GenerateurVehicules.compteur_a / compteur_b
    lambdas,                  \* per lane: GenerateurVehicules.lambda_a / lambda_b
    vehicules,                \* per lane: GenerateurVehicules.vehicules_a / vehicules_b (ids)
    veh,                      \* per lane and id: the Vehicule and its process position
    file,                     \* per lane: FileAttente.vehicules_en_attente (ids)
    vehicules_total,          \* per lane: Intersection.vehicules_total_a / _b
    nombre_vehicules_servis,  \* per lane: FileAttente.nombre_vehicules_servis
    temps_attente_total,      \* per lane: FileAttente.temps_attente_total
    users,                    \* per lane: Resource.users (granted requests)
    put_queue,                \* per lane: Resource.put_queue (pending requests)
    stats,                    \* the dict an obtenir_statistiques has returned since env.run returned
    evenements,               \* GestionnaireSimulation.evenements (Queue), visual simulations
    couleur_feu_a,            \* CarrefourGraphique.couleur_feu_a
    couleur_feu_b,            \* CarrefourGraphique.couleur_feu_b
    attente,                  \* per lane: CarrefourGraphique.stats['voie_a_attente'] / ['voie_b_attente']
    voie_servis               \* per lane: CarrefourGraphique.stats['voie_a_servis'] / ['voie_b_servis']

feux_vars == <<etat_actuel, nombre_cycles, feu_a, feu_b, feu_pietons, historique_etats,
              pc_feux>>
gen_vars == <<pc_gen, compteur, lambdas, vehicules>>
lane_vars == <<veh, file, vehicules_total, nombre_vehicules_servis,
               temps_attente_total, users, put_queue>>
prog_vars == <<now, queue, running, erreur, config, feux_vars, gen_vars, lane_vars>>
visu_vars == <<evenements, couleur_feu_a, couleur_feu_b, attente, voie_servis>>
vars == <<prog_vars, stats, visu_vars>>

\* ------------------------------------------------------- ConfigurationFeux
\* mutant: the yellow phase counted once
duree_cycle_un_jaune(c) ==
    c.duree_vert_a + c.duree_jaune + c.duree_vert_b + c.duree_pietons

\* the property duree_cycle
duree_cycle(c) ==
    c.duree_vert_a + c.duree_jaune + c.duree_vert_b + c.duree_jaune + c.duree_pietons

\* --------------------------------------------------- simpy.Environment
\* An entry of env._queue.  type is the event class; proc/lane/id name the
\* process its callback resumes (or the resource of a Release); eid is the
\* insertion stamp, set by schedule.
Event(t, u, ty, p, l, i) ==
    [time |-> t, urgent |-> u, type |-> ty, proc |-> p, lane |-> l, id |-> i, eid |-> 0]

\* mutant: the insertion stamps compared the wrong way round
Before_pile(e, f) ==
    \/ e.time < f.time
    \/ e.time = f.time /\ e.urgent /\ ~f.urgent
    \/ e.time = f.time /\ e.urgent = f.urgent /\ e.eid > f.eid
\* heap order of (time, priority, eid): e is popped before f
Before(e, f) ==
    \/ e.time < f.time
    \/ e.time = f.time /\ e.urgent /\ ~f.urgent
    \/ e.time = f.time /\ e.urgent = f.urgent /\ e.eid < f.eid

\* next(env._eid).  The counter only orders the entries that are in the
\* list together, so the stamp is kept as the rank among them: one more
\* than the number of entries present.
next_eid(q) == Len(q) + 1

\* the list after step() has popped its head: the ranks above the popped
\* stamp move down by one, their order is unchanged
pop(q) ==
    [k \in 1..(Len(q) - 1) |->
        IF q[k + 1].eid > q[1].eid
        THEN [q[k + 1] EXCEPT !.eid = @ - 1]
        ELSE q[k + 1]]

\* Environment.schedule: heappush of (now + delay, priority, eid, event)
schedule(q, e) ==
    LET s == [e EXCEPT !.eid = next_eid(q)]
        k == Cardinality({j \in 1..Len(q) : Before(q[j], s)})
    IN  SubSeq(q, 1, k) \o <<s>> \o SubSeq(q, k + 1, Len(q))

\* mutant: the delay taken as an absolute time
timeout_absolu(q, t, delay, p, l, i) == schedule(q, Event(delay, FALSE, "Timeout", p, l, i))
\* env.timeout(delay): a Timeout, scheduled NORMAL at now + delay
timeout(q, t, delay, p, l, i) == schedule(q, Event(t + delay, FALSE, "Timeout", p, l, i))

\* env.process(generator): an Initialize, scheduled URGENT at now
process(q, t, p, l, i) == schedule(q, Event(t, TRUE, "Initialize", p, l, i))

\* the event step() pops next
ev == Head(queue)
Pops(ty, p) == running /\ queue # <<>> /\ ev.type = ty /\ ev.proc = p

\* ------------------------------------------------------------ SystemeFeux
\* mutant: crossing also allowed on yellow (est_rouge negated for est_vert)
peut_passer_voie_a_jaune == feu_a # "ROUGE"
peut_passer_voie_a == feu_a = "VERT"
\* mutant: voie_b written as a copy of voie_a, still reading feu_a
peut_passer_voie_b_copie == feu_a = "VERT"
peut_passer_voie_b == feu_b = "VERT"
peut_passer(l) == IF l = "A" THEN peut_passer_voie_a ELSE peut_passer_voie_b

\* the state after main.py has built the components and registered the
\* three processes, before env.run
NoVeh == [pc |-> "absent", temps_arrivee |-> 0, temps_depart |-> None, temps_attente |-> 0]

NoStats == [source |-> "-"]

Durees == 0..MaxDuree
Configs == [duree_vert_a : Durees, duree_vert_b : Durees,
            duree_jaune : Durees, duree_pietons : Durees]

InitCommon ==
    /\ now = 0
    /\ running = FALSE
    /\ erreur = ""
    /\ etat_actuel = "S1"
    /\ nombre_cycles = 0
    /\ feu_a = "VERT"
    /\ feu_b = "ROUGE"
    /\ feu_pietons = "ROUGE"
    /\ historique_etats = <<>>
    /\ pc_feux = "init"
    /\ compteur = [l \in Lanes |-> 0]
    /\ vehicules = [l \in Lanes |-> <<>>]
    /\ stats = NoStats
    /\ evenements = <<>>
    /\ couleur_feu_a = "red"
    /\ couleur_feu_b = "red"
    /\ attente = [l \in Lanes |-> 0]
    /\ voie_servis = [l \in Lanes |-> 0]
    /\ veh = [l \in Lanes |-> [i \in VehIds |-> NoVeh]]
    /\ file = [l \in Lanes |-> <<>>]
    /\ vehicules_total = [l \in Lanes |-> 0]
    /\ nombre_vehicules_servis = [l \in Lanes |-> 0]
    /\ temps_attente_total = [l \in Lanes |-> 0]
    /\ users = [l \in Lanes |-> <<>>]
    /\ put_queue = [l \in Lanes |-> <<>>]

\* test_feux.py: only the controller is registered
InitFeux ==
    /\ InitCommon
    /\ config \in Configs
    /\ pc_gen = [l \in Lanes |-> "absent"]
    /\ lambdas = [l \in Lanes |-> 1]
    /\ queue = process(<<>>, 0, "feux", "-", 0)

\* ---------------------------------------------------------------- env.run
\* env.run(until=limit): limit <= now raises ValueError; otherwise the stop
\* event is scheduled URGENT at limit, before all regular events of that time.
\* The caller's snapshot of the previous run is not carried into this one.
Run(limit) ==
    /\ ~running /\ erreur = ""
    /\ limit > now
    /\ running' = TRUE
    /\ queue' = schedule(queue, Event(limit, TRUE, "Until", "-", "-", 0))
    /\ UNCHANGED visu_vars
    /\ stats' = NoStats
    /\ UNCHANGED <<now, erreur, config, feux_vars, gen_vars, lane_vars>>

\* step() pops the stop event: StopSimulation, run returns
StepUntil ==
    /\ Pops("Until", "-")
    /\ now' = ev.time
    /\ queue' = pop(queue)
    /\ running' = FALSE
    /\ UNCHANGED <<erreur, stats, visu_vars, config, feux_vars, gen_vars, lane_vars>>

\* step() pops the event of a process that has raised: the exception is
\* re-raised out of env.run, which main.py does not catch
StepEchec ==
    /\ running /\ queue # <<>> /\ ev.type = "Echec"
    /\ now' = ev.time
    /\ queue' = pop(queue)
    /\ running' = FALSE
    /\ erreur' = IF ev.proc = "feux" THEN "ValueError" ELSE "ZeroDivisionError"
    /\ UNCHANGED <<stats, visu_vars, config, feux_vars, gen_vars, lane_vars>>

\* ------------------------------------------------- SystemeFeux.gerer_cycle
\* yield self.env.timeout(duree): a negative delay raises ValueError inside
\* the generator, the process fails and its event is scheduled NORMAL at now
attendre(q, t, duree) ==
    IF duree < 0
    THEN schedule(q, Event(t, FALSE, "Echec", "feux", "-", 0))
    ELSE timeout(q, t, duree, "feux", "-", 0)
\* the position of gerer_cycle after that yield
suspendu(pc, duree) == IF duree < 0 THEN "echec" ELSE pc

\* mutant: the new phase is stored but not recorded
transition_etat_sans_historique(nouvel_etat, t) ==
    /\ etat_actuel' = nouvel_etat
    /\ UNCHANGED historique_etats

\* transition_etat: the new phase is stored and recorded with env.now
transition_etat(nouvel_etat, t) ==
    /\ etat_actuel' = nouvel_etat
    /\ historique_etats' = Append(historique_etats, [temps |-> t, etat |-> nouvel_etat])

\* the S1 block of the loop body: transition_etat(S1), the three lights,
\* then yield timeout(duree_vert_a)
EntrerS1 ==
    /\ transition_etat("S1", ev.time)
    /\ feu_a' = "VERT"
    /\ feu_b' = "ROUGE"
    /\ feu_pietons' = "ROUGE"
    /\ pc_feux' = suspendu("S1", config.duree_vert_a)
    /\ queue' = attendre(pop(queue), ev.time, config.duree_vert_a)

\* mutant: the counter is incremented at the top of the loop body, so the
\* first entry into S1 counts as a cycle
FeuxStart_compte ==
    /\ Pops("Initialize", "feux")
    /\ now' = ev.time
    /\ nombre_cycles' = nombre_cycles + 1
    /\ EntrerS1
    /\ UNCHANGED <<running, erreur, stats, visu_vars, config, gen_vars, lane_vars>>

\* the process starts: first pass through the S1 block
FeuxStart ==
    /\ Pops("Initialize", "feux")
    /\ now' = ev.time
    /\ EntrerS1
    /\ UNCHANGED <<running, erreur, stats, visu_vars, config, nombre_cycles, gen_vars, lane_vars>>

\* mutant: an adaptive signal, the green of lane A is extended while
\* vehicles wait on lane A
FeuxS2_adaptatif ==
    /\ Pops("Timeout", "feux") /\ pc_feux = "S1"
    /\ now' = ev.time
    /\ IF file["A"] # <<>>
       THEN /\ queue' = attendre(pop(queue), ev.time, 1)
            /\ UNCHANGED <<etat_actuel, historique_etats, feu_a, pc_feux>>
       ELSE /\ transition_etat("S2", ev.time)
            /\ feu_a' = "JAUNE"
            /\ pc_feux' = suspendu("S2", config.duree_jaune)
            /\ queue' = attendre(pop(queue), ev.time, config.duree_jaune)
    /\ UNCHANGED <<running, erreur, stats, visu_vars, config, nombre_cycles, feu_b, feu_pietons,
                   gen_vars, lane_vars>>

FeuxS2 ==
    /\ Pops("Timeout", "feux") /\ pc_feux = "S1"
    /\ now' = ev.time
    /\ transition_etat("S2", ev.time)
    /\ feu_a' = "JAUNE"
    /\ pc_feux' = suspendu("S2", config.duree_jaune)
    /\ queue' = attendre(pop(queue), ev.time, config.duree_jaune)
    /\ UNCHANGED <<running, erreur, stats, visu_vars, config, nombre_cycles, feu_b, feu_pietons, gen_vars, lane_vars>>

\* mutant: the S3 block turns B green without turning A red
FeuxS3_sans_rouge ==
    /\ Pops("Timeout", "feux") /\ pc_feux = "S2"
    /\ now' = ev.time
    /\ transition_etat("S3", ev.time)
    /\ feu_b' = "VERT"
    /\ pc_feux' = suspendu("S3", config.duree_vert_b)
    /\ queue' = attendre(pop(queue), ev.time, config.duree_vert_b)
    /\ UNCHANGED <<running, erreur, stats, visu_vars, config, nombre_cycles, feu_a, feu_pietons,
                   gen_vars, lane_vars>>

\* the S3 block of the loop body
FeuxS3 ==
    /\ Pops("Timeout", "feux") /\ pc_feux = "S2"
    /\ now' = ev.time
    /\ transition_etat("S3", ev.time)
    /\ feu_a' = "ROUGE"
    /\ feu_b' = "VERT"
    /\ pc_feux' = suspendu("S3", config.duree_vert_b)
    /\ queue' = attendre(pop(queue), ev.time, config.duree_vert_b)
    /\ UNCHANGED <<running, erreur, stats, visu_vars, config, nombre_cycles, feu_pietons, gen_vars, lane_vars>>

\* mutant: the S4 block announces S5, so S4 is skipped in etat_actuel
FeuxS4_saute ==
    /\ Pops("Timeout", "feux") /\ pc_feux = "S3"
    /\ now' = ev.time
    /\ transition_etat("S5", ev.time)
    /\ feu_b' = "JAUNE"
    /\ pc_feux' = suspendu("S4", config.duree_jaune)
    /\ queue' = attendre(pop(queue), ev.time, config.duree_jaune)
    /\ UNCHANGED <<running, erreur, stats, visu_vars, config, nombre_cycles, feu_a, feu_pietons, gen_vars, lane_vars>>

FeuxS4 ==
    /\ Pops("Timeout", "feux") /\ pc_feux = "S3"
    /\ now' = ev.time
    /\ transition_etat("S4", ev.time)
    /\ feu_b' = "JAUNE"
    /\ pc_feux' = suspendu("S4", config.duree_jaune)
    /\ queue' = attendre(pop(queue), ev.time, config.duree_jaune)
    /\ UNCHANGED <<running, erreur, stats, visu_vars, config, nombre_cycles, feu_a, feu_pietons, gen_vars, lane_vars>>

\* mutant: the S5 block waits duree_jaune, as the S4 block does
FeuxS5_jaune ==
    /\ Pops("Timeout", "feux") /\ pc_feux = "S4"
    /\ now' = ev.time
    /\ transition_etat("S5", ev.time)
    /\ feu_b' = "ROUGE"
    /\ feu_pietons' = "VERT"
    /\ pc_feux' = suspendu("S5", config.duree_jaune)
    /\ queue' = attendre(pop(queue), ev.time, config.duree_jaune)
    /\ UNCHANGED <<running, erreur, stats, visu_vars, config, nombre_cycles, feu_a, gen_vars, lane_vars>>

FeuxS5 ==
    /\ Pops("Timeout", "feux") /\ pc_feux = "S4"
    /\ now' = ev.time
    /\ transition_etat("S5", ev.time)
    /\ feu_b' = "ROUGE"
    /\ feu_pietons' = "VERT"
    /\ pc_feux' = suspendu("S5", config.duree_pietons)
    /\ queue' = attendre(pop(queue), ev.time, config.duree_pietons)
    /\ UNCHANGED <<running, erreur, stats, visu_vars, config, nombre_cycles, feu_a, gen_vars, lane_vars>>

\* end of the loop body: nombre_cycles += 1, then the S1 block again
FeuxFinCycle ==
    /\ Pops("Timeout", "feux") /\ pc_feux = "S5"
    /\ nombre_cycles < MaxCycles
    /\ now' = ev.time
    /\ nombre_cycles' = nombre_cycles + 1
    /\ EntrerS1
    /\ UNCHANGED <<running, erreur, stats, visu_vars, config, gen_vars, lane_vars>>

Feux == FeuxStart \/ FeuxS2 \/ FeuxS3 \/ FeuxS4 \/ FeuxS5 \/ FeuxFinCycle

NextFeux ==
    \/ \E limit \in 1..MaxTime : Run(limit)
    \/ StepUntil
    \/ Feux

SpecFeux == InitFeux /\ [][NextFeux]_vars

\* main.py executer_simulation: controller and both generators registered
\* the configurations of the runs with traffic (ticks)
ConfigsTrafic ==
    {[duree_vert_a |-> 1, duree_vert_b |-> 2, duree_jaune |-> 1, duree_pietons |-> 1],
     [duree_vert_a |-> 2, duree_vert_b |-> 1, duree_jaune |-> 0, duree_pietons |-> 2],
     [duree_vert_a |-> 3, duree_vert_b |-> 3, duree_jaune |-> 1, duree_pietons |-> 0]}

Init ==
    /\ InitCommon
    /\ config \in ConfigsTrafic
    /\ pc_gen = [l \in Lanes |-> "init"]
    /\ lambdas = [l \in Lanes |-> 1]
    /\ queue = process(process(process(<<>>, 0, "feux", "-", 0), 0, "gen", "A", 0),
                       0, "gen", "B", 0)

\* ------------------------------------------------------ simpy.Resource
\* mutant: _do_put without the capacity test
trigger_put_sans_capacite(us, pq, q, t, l) ==
    IF pq # <<>>
    THEN [users |-> Append(us, Head(pq)),
          put_queue |-> Tail(pq),
          queue |-> schedule(q, Event(t, FALSE, "Request", "veh", l, Head(pq)))]
    ELSE [users |-> us, put_queue |-> pq, queue |-> q]

\* BaseResource._trigger_put with Resource._do_put: the oldest pending
\* request is granted when a slot is free (users gets it, the request
\* succeeds, i.e. is scheduled NORMAL at now); _do_put returns None, so the
\* loop stops after that one request.
trigger_put(us, pq, q, t, l) ==
    IF pq # <<>> /\ Len(us) < Capacity
    THEN [users |-> Append(us, Head(pq)),
          put_queue |-> Tail(pq),
          queue |-> schedule(q, Event(t, FALSE, "Request", "veh", l, Head(pq)))]
    ELSE [users |-> us, put_queue |-> pq, queue |-> q]

\* resource.request(): Put.__init__ appends to put_queue, then _trigger_put
request(us, pq, q, t, l, i) == trigger_put(us, Append(pq, i), q, t, l)

\* resource.release(req) on leaving the with-block: Get.__init__ runs
\* _do_get (users.remove(request)) and the Release succeeds (scheduled
\* NORMAL at now); its callback _trigger_put runs when it is popped.
release(us, q, t, l, i) ==
    [users |-> SelectSeq(us, LAMBDA j : j # i),
     queue |-> schedule(q, Event(t, FALSE, "Release", "-", l, 0))]

\* ------------------------------------------------------------ FileAttente
ajouter_vehicule(f, i) == Append(f, i)
\* mutant: the head is read but not popped
retirer_vehicule_sans_pop(f) == f
retirer_vehicule(f) == IF f # <<>> THEN Tail(f) ELSE f
\* mutant: "=" written for "+="
enregistrer_service_ecrase(total, temps_attente) == temps_attente
\* enregistrer_service: temps_attente_total += temps_attente (the served
\* counter is incremented by the caller's step)
enregistrer_service(total, temps_attente) == total + temps_attente

\* ----------------------------------- GenerateurVehicules.generer_voie_a/_b
\* temps_inter_arrivee: random.expovariate(lambda), any gap >= 0
Gaps == 0..MaxGap

\* the top of the loop: the gap is drawn and waited for;
\* random.expovariate(0) raises ZeroDivisionError and the process fails
ProchaineArrivee(l, q, t) ==
    IF lambdas[l] = 0
    THEN /\ queue' = schedule(q, Event(t, FALSE, "Echec", "gen", l, 0))
         /\ pc_gen' = [pc_gen EXCEPT ![l] = "echec"]
    ELSE /\ \E g \in Gaps : queue' = timeout(q, t, g, "gen", l, 0)
         /\ pc_gen' = [pc_gen EXCEPT ![l] = "attente"]

\* the process starts: draws the first gap and waits
GenStart(l) ==
    /\ Pops("Initialize", "gen") /\ ev.lane = l
    /\ now' = ev.time
    /\ ProchaineArrivee(l, pop(queue), ev.time)
    /\ UNCHANGED <<running, erreur, stats, visu_vars, config, feux_vars, compteur, lambdas, vehicules,
                   lane_vars>>

\* mutant: temps_arrivee read from the clock before the step advanced it
GenArrive_ancien(l) ==
    /\ Pops("Timeout", "gen") /\ ev.lane = l
    /\ compteur[l] < MaxVeh
    /\ now' = ev.time
    /\ compteur' = [compteur EXCEPT ![l] = @ + 1]
    /\ vehicules' = [vehicules EXCEPT ![l] = Append(@, compteur[l] + 1)]
    /\ veh' = [veh EXCEPT ![l][compteur[l] + 1] =
                 [pc |-> "init", temps_arrivee |-> now,
                  temps_depart |-> None, temps_attente |-> 0]]
    /\ LET q == process(pop(queue), ev.time, "veh", l, compteur[l] + 1)
       IN  IF compteur[l] + 1 < MaxVeh
           THEN ProchaineArrivee(l, q, ev.time)
           ELSE /\ queue' = q
                /\ pc_gen' = [pc_gen EXCEPT ![l] = "cut"]
    /\ UNCHANGED <<running, erreur, stats, visu_vars, config, feux_vars, lambdas, file, vehicules_total,
                   nombre_vehicules_servis, temps_attente_total, users, put_queue>>

\* an arrival: compteur += 1, the Vehicule is created with temps_arrivee =
\* env.now, its crossing process is registered, and the next gap is drawn.
\* After MaxVeh vehicles the generator is cut off.
GenArrive(l) ==
    /\ Pops("Timeout", "gen") /\ ev.lane = l
    /\ compteur[l] < MaxVeh
    /\ now' = ev.time
    /\ compteur' = [compteur EXCEPT ![l] = @ + 1]
    /\ vehicules' = [vehicules EXCEPT ![l] = Append(@, compteur[l] + 1)]
    /\ veh' = [veh EXCEPT ![l][compteur[l] + 1] =
                 [pc |-> "init", temps_arrivee |-> ev.time,
                  temps_depart |-> None, temps_attente |-> 0]]
    /\ LET q == process(pop(queue), ev.time, "veh", l, compteur[l] + 1)
       IN  IF compteur[l] + 1 < MaxVeh
           THEN ProchaineArrivee(l, q, ev.time)
           ELSE /\ queue' = q
                /\ pc_gen' = [pc_gen EXCEPT ![l] = "cut"]
    /\ UNCHANGED <<running, erreur, stats, visu_vars, config, feux_vars, lambdas, file, vehicules_total,
                   nombre_vehicules_servis, temps_attente_total, users, put_queue>>

\* --------------------------------------- Intersection.traverser_voie_a/_b
\* mutant: the light is polled every 0.2 s
AttendreFeu_lent(l, i, q, t, pcs) ==
    IF ~peut_passer(l)
    THEN /\ queue' = timeout(q, t, PollTicks + PollTicks, "veh", l, i)
         /\ veh' = [pcs EXCEPT ![l][i].pc = "poll"]
         /\ UNCHANGED <<users, put_queue>>
    ELSE LET r == request(users[l], put_queue[l], q, t, l, i)
         IN  /\ queue' = r.queue
             /\ users' = [users EXCEPT ![l] = r.users]
             /\ put_queue' = [put_queue EXCEPT ![l] = r.put_queue]
             /\ veh' = [pcs EXCEPT ![l][i].pc = "request"]

\* step 2 and 3 of the process, from the light check to its next yield:
\* not green -> timeout(0.1) and check again; green -> request the resource
\* and wait for the request
AttendreFeu(l, i, q, t, pcs) ==
    IF ~peut_passer(l)
    THEN /\ queue' = timeout(q, t, PollTicks, "veh", l, i)
         /\ veh' = [pcs EXCEPT ![l][i].pc = "poll"]
         /\ UNCHANGED <<users, put_queue>>
    ELSE LET r == request(users[l], put_queue[l], q, t, l, i)
         IN  /\ queue' = r.queue
             /\ users' = [users EXCEPT ![l] = r.users]
             /\ put_queue' = [put_queue EXCEPT ![l] = r.put_queue]
             /\ veh' = [pcs EXCEPT ![l][i].pc = "request"]

\* mutant: the subtraction the wrong way round
calculer_attente_inverse(t, v) == v.temps_arrivee - t
\* temps_attente = self.env.now - vehicule.temps_arrivee, at admission
calculer_attente(t, v) == t - v.temps_arrivee

\* the process starts: joins the waiting list, then the light check
VehStart(l, i) ==
    /\ Pops("Initialize", "veh") /\ ev.lane = l /\ ev.id = i
    /\ now' = ev.time
    /\ file' = [file EXCEPT ![l] = ajouter_vehicule(@, i)]
    /\ vehicules_total' = [vehicules_total EXCEPT ![l] = @ + 1]
    /\ AttendreFeu(l, i, pop(queue), ev.time, veh)
    /\ UNCHANGED <<running, erreur, stats, visu_vars, config, feux_vars, gen_vars,
                   nombre_vehicules_servis, temps_attente_total>>

\* resumed after a 0.1 s poll: the light check again
VehPoll(l, i) ==
    /\ Pops("Timeout", "veh") /\ ev.lane = l /\ ev.id = i
    /\ veh[l][i].pc = "poll"
    /\ now' = ev.time
    /\ AttendreFeu(l, i, pop(queue), ev.time, veh)
    /\ UNCHANGED <<running, erreur, stats, visu_vars, config, feux_vars, gen_vars, file, vehicules_total,
                   nombre_vehicules_servis, temps_attente_total>>

\* mutant: the crossing takes longer the more vehicles are still waiting
VehAdmit_selon_file(l, i) ==
    /\ Pops("Request", "veh") /\ ev.lane = l /\ ev.id = i
    /\ now' = ev.time
    /\ file' = [file EXCEPT ![l] = retirer_vehicule(@)]
    /\ veh' = [veh EXCEPT ![l][i].pc = "crossing",
                          ![l][i].temps_attente = calculer_attente(ev.time, veh[l][i])]
    /\ queue' = timeout(pop(queue), ev.time, CrossTicks + Len(file'[l]), "veh", l, i)
    /\ UNCHANGED <<running, erreur, stats, visu_vars, config, feux_vars, gen_vars, vehicules_total,
                   nombre_vehicules_servis, temps_attente_total, users, put_queue>>

\* resumed with the resource: the head of the waiting list is removed, the
\* wait is computed, and the crossing timeout is started
VehAdmit(l, i) ==
    /\ Pops("Request", "veh") /\ ev.lane = l /\ ev.id = i
    /\ now' = ev.time
    /\ file' = [file EXCEPT ![l] = retirer_vehicule(@)]
    /\ veh' = [veh EXCEPT ![l][i].pc = "crossing",
                          ![l][i].temps_attente = calculer_attente(ev.time, veh[l][i])]
    /\ queue' = timeout(pop(queue), ev.time, CrossTicks, "veh", l, i)
    /\ UNCHANGED <<running, erreur, stats, visu_vars, config, feux_vars, gen_vars, vehicules_total,
                   nombre_vehicules_servis, temps_attente_total, users, put_queue>>

\* mutant: the departure is recorded but enregistrer_service is not called
VehDepart_sans_service(l, i) ==
    /\ Pops("Timeout", "veh") /\ ev.lane = l /\ ev.id = i
    /\ veh[l][i].pc = "crossing"
    /\ now' = ev.time
    /\ veh' = [veh EXCEPT ![l][i].pc = "done", ![l][i].temps_depart = ev.time]
    /\ LET r == release(users[l], pop(queue), ev.time, l, i)
       IN  /\ users' = [users EXCEPT ![l] = r.users]
           /\ queue' = schedule(r.queue, Event(ev.time, FALSE, "Process", "veh", l, i))
    /\ UNCHANGED <<running, erreur, stats, visu_vars, config, feux_vars, gen_vars, file, vehicules_total,
                   put_queue, temps_attente_total, nombre_vehicules_servis>>

\* resumed after the crossing: departure recorded, enregistrer_service, the
\* with-block releases the resource and the process ends (its Process event
\* succeeds and is scheduled)
VehDepart(l, i) ==
    /\ Pops("Timeout", "veh") /\ ev.lane = l /\ ev.id = i
    /\ veh[l][i].pc = "crossing"
    /\ now' = ev.time
    /\ veh' = [veh EXCEPT ![l][i].pc = "done", ![l][i].temps_depart = ev.time]
    /\ temps_attente_total' =
           [temps_attente_total EXCEPT ![l] = enregistrer_service(@, veh[l][i].temps_attente)]
    /\ nombre_vehicules_servis' = [nombre_vehicules_servis EXCEPT ![l] = @ + 1]
    /\ LET r == release(users[l], pop(queue), ev.time, l, i)
       IN  /\ users' = [users EXCEPT ![l] = r.users]
           /\ queue' = schedule(r.queue, Event(ev.time, FALSE, "Process", "veh", l, i))
    /\ UNCHANGED <<running, erreur, stats, visu_vars, config, feux_vars, gen_vars, file, vehicules_total, put_queue>>

\* step() pops a Release: its callback _trigger_put grants the next request
StepRelease(l) ==
    /\ Pops("Release", "-") /\ ev.lane = l
    /\ now' = ev.time
    /\ LET r == trigger_put(users[l], put_queue[l], pop(queue), ev.time, l)
       IN  /\ queue' = r.queue
           /\ users' = [users EXCEPT ![l] = r.users]
           /\ put_queue' = [put_queue EXCEPT ![l] = r.put_queue]
    /\ UNCHANGED <<running, erreur, stats, visu_vars, config, feux_vars, gen_vars, veh, file, vehicules_total,
                   nombre_vehicules_servis, temps_attente_total>>

\* step() pops the Process event of a finished crossing: nobody waits on it
StepProcess ==
    /\ Pops("Process", "veh")
    /\ now' = ev.time
    /\ queue' = pop(queue)
    /\ UNCHANGED <<running, erreur, stats, visu_vars, config, feux_vars, gen_vars, lane_vars>>

Next ==
    \/ \E limit \in 1..MaxTime : Run(limit)
    \/ StepUntil
    \/ Feux
    \/ \E l \in Lanes : GenStart(l) \/ GenArrive(l) \/ StepRelease(l)
    \/ \E l \in Lanes, i \in VehIds :
           VehStart(l, i) \/ VehPoll(l, i) \/ VehAdmit(l, i) \/ VehDepart(l, i)
    \/ StepProcess

Spec == Init /\ [][Next]_vars

\* executer_simulation called with any durations and rates: nothing is
\* validated; the only failure before env.run is the division by
\* duree_cycle in proportion_vert_a (main.py)
ConfigsNegatives ==
    {[duree_vert_a |-> -1, duree_vert_b |-> 2, duree_jaune |-> 1, duree_pietons |-> 1],
     [duree_vert_a |-> 2, duree_vert_b |-> 1, duree_jaune |-> -1, duree_pietons |-> 2],
     [duree_vert_a |-> 1, duree_vert_b |-> 2, duree_jaune |-> 1, duree_pietons |-> -1]}
Taux == {0, 1}

InitConfig ==
    /\ InitCommon
    /\ config \in ConfigsTrafic \cup ConfigsNegatives
    /\ duree_cycle(config) # 0
    /\ lambdas \in [Lanes -> Taux]
    /\ pc_gen = [l \in Lanes |-> "init"]
    /\ queue = process(process(process(<<>>, 0, "feux", "-", 0), 0, "gen", "A", 0),
                       0, "gen", "B", 0)

NextConfig == Next \/ StepEchec

SpecConfig == InitConfig /\ [][NextConfig]_vars

\* ------------------------------------------------ obtenir_statistiques
\* a float quotient n / d, kept as the reduced fraction
RECURSIVE Pgcd(_, _)
Pgcd(a, b) == IF b = 0 THEN a ELSE Pgcd(b, a % b)
Fraction(n, d) ==
    IF n = 0 THEN [num |-> 0, den |-> 1]
    ELSE [num |-> n \div Pgcd(n, d), den |-> d \div Pgcd(n, d)]

RECURSIVE Somme(_)
Somme(x) == IF x = <<>> THEN 0 ELSE Head(x) + Somme(Tail(x))
RECURSIVE Maximum(_)
Maximum(x) ==
    IF Len(x) = 1 THEN Head(x)
    ELSE IF Head(x) >= Maximum(Tail(x)) THEN Head(x) ELSE Maximum(Tail(x))

\* FileAttente.temps_attente_moyen and longueur
temps_attente_moyen(l) ==
    IF nombre_vehicules_servis[l] = 0
    THEN Fraction(0, 1)
    ELSE Fraction(temps_attente_total[l], nombre_vehicules_servis[l])
longueur(l) == Len(file[l])

\* ConfigurationFeux.proportion_vert_a / _b (ZeroDivisionError when the
\* cycle has length 0)
proportion_vert_a(c) == Fraction(c.duree_vert_a, duree_cycle(c))
proportion_vert_b(c) == Fraction(c.duree_vert_b, duree_cycle(c))

\* calculer_stats of GenerateurVehicules.obtenir_statistiques: the waits of
\* the vehicles of the list whose temps_depart is set; the standard
\* deviation is kept as its square, (n * sum x^2 - (sum x)^2) / n^2
calculer_stats(l) ==
    LET servis == SelectSeq(vehicules[l], LAMBDA i : veh[l][i].temps_depart # None)
        temps_attente == [k \in 1..Len(servis) |-> veh[l][servis[k]].temps_attente]
        n == Len(temps_attente)
        carres == [k \in 1..n |-> temps_attente[k] * temps_attente[k]]
    IN  IF vehicules[l] = <<>>
        THEN [nombre_total |-> 0, temps_attente_moyen |-> Fraction(0, 1),
              temps_attente_max |-> 0]
        ELSE [nombre_total |-> Len(vehicules[l]),
              nombre_servis |-> n,
              temps_attente_moyen |->
                  IF n = 0 THEN Fraction(0, 1) ELSE Fraction(Somme(temps_attente), n),
              temps_attente_max |-> IF n = 0 THEN 0 ELSE Maximum(temps_attente),
              temps_attente_std |->
                  IF n = 0 THEN Fraction(0, 1)
                  ELSE Fraction(n * Somme(carres) - Somme(temps_attente) * Somme(temps_attente),
                                n * n)]

stats_voie(l) ==
    [vehicules_total |-> vehicules_total[l],
     vehicules_servis |-> nombre_vehicules_servis[l],
     temps_attente_moyen |-> temps_attente_moyen(l),
     longueur_file_actuelle |-> longueur(l)]

\* mutant: the length is counted by emptying the waiting lists
StatsIntersection_vide ==
    /\ ~running /\ erreur = ""
    /\ UNCHANGED visu_vars
    /\ stats' = [source |-> "intersection",
                 voie_a |-> stats_voie("A"), voie_b |-> stats_voie("B")]
    /\ file' = [l \in Lanes |-> <<>>]
    /\ UNCHANGED <<now, queue, running, erreur, config, feux_vars, gen_vars, veh,
                   vehicules_total, nombre_vehicules_servis, temps_attente_total,
                   users, put_queue>>

\* Intersection.obtenir_statistiques, called once env.run has returned
StatsIntersection ==
    /\ ~running /\ erreur = ""
    /\ UNCHANGED visu_vars
    /\ stats' = [source |-> "intersection",
                 voie_a |-> stats_voie("A"), voie_b |-> stats_voie("B")]
    /\ UNCHANGED prog_vars

\* GenerateurVehicules.obtenir_statistiques
StatsGenerateur ==
    /\ ~running /\ erreur = ""
    /\ UNCHANGED visu_vars
    /\ stats' = [source |-> "generateur",
                 voie_a |-> calculer_stats("A"), voie_b |-> calculer_stats("B")]
    /\ UNCHANGED prog_vars

\* mutant: the snapshot reports the time of the last phase transition
\* instead of the clock
StatsFeux_dernier ==
    /\ ~running /\ erreur = ""
    /\ duree_cycle(config) # 0
    /\ UNCHANGED visu_vars
    /\ stats' = [source |-> "feux",
                 nombre_cycles |-> nombre_cycles,
                 duree_cycle |-> duree_cycle(config),
                 proportion_vert_a |-> proportion_vert_a(config),
                 proportion_vert_b |-> proportion_vert_b(config),
                 temps_simulation |->
                     IF historique_etats = <<>> THEN 0
                     ELSE historique_etats[Len(historique_etats)].temps]
    /\ UNCHANGED prog_vars

\* SystemeFeux.obtenir_statistiques
StatsFeux ==
    /\ ~running /\ erreur = ""
    /\ duree_cycle(config) # 0
    /\ UNCHANGED visu_vars
    /\ stats' = [source |-> "feux",
                 nombre_cycles |-> nombre_cycles,
                 duree_cycle |-> duree_cycle(config),
                 proportion_vert_a |-> proportion_vert_a(config),
                 proportion_vert_b |-> proportion_vert_b(config),
                 temps_simulation |-> now]
    /\ UNCHANGED prog_vars

\* main.py after env.run, and the tests: the three snapshots, any number of
\* times between two runs
NextStats == Next \/ StatsIntersection \/ StatsGenerateur \/ StatsFeux

SpecStats == Init /\ [][NextStats]_vars

\* ------------------------------------------------- the run without end
\* The same processes with the clock kept relative, so that a run that
\* goes on for ever is a walk through finitely many states: now stays 0,
\* the time of an entry of the event list is the delay it has left, and
\* what only counts or records (nombre_cycles, historique_etats, the times
\* stored in a Vehicule, temps_attente_total) is left as it is.  None of
\* these is read by a condition of the code.  One generator is registered,
\* as in the __main__ block of intersection.py.

\* the event list once its head is popped and the clock has moved to it
Decale(q, d) == [k \in 1..Len(q) |-> [q[k] EXCEPT !.time = @ - d]]
reste == Decale(pop(queue), ev.time)

ConfigsLive ==
    {[duree_vert_a |-> 0, duree_vert_b |-> 0, duree_jaune |-> 0, duree_pietons |-> 0],
     [duree_vert_a |-> 1, duree_vert_b |-> 1, duree_jaune |-> 0, duree_pietons |-> 2],
     [duree_vert_a |-> 2, duree_vert_b |-> 2, duree_jaune |-> 0, duree_pietons |-> 0],
     [duree_vert_a |-> 2, duree_vert_b |-> 3, duree_jaune |-> 1, duree_pietons |-> 1],
     [duree_vert_a |-> 3, duree_vert_b |-> 2, duree_jaune |-> 0, duree_pietons |-> 2]}

InitLive ==
    /\ InitCommon
    /\ config \in ConfigsLive
    /\ lambdas = [l \in Lanes |-> 1]
    /\ \E voie \in Lanes :
          /\ pc_gen = [l \in Lanes |-> IF l = voie THEN "init" ELSE "absent"]
          /\ queue = process(process(<<>>, 0, "feux", "-", 0), 0, "gen", voie, 0)

StepUntil_rel ==
    /\ Pops("Until", "-")
    /\ queue' = reste
    /\ running' = FALSE
    /\ UNCHANGED <<now, erreur, stats, visu_vars, config, feux_vars, gen_vars, lane_vars>>

EntrerS1_rel ==
    /\ etat_actuel' = "S1"
    /\ feu_a' = "VERT"
    /\ feu_b' = "ROUGE"
    /\ feu_pietons' = "ROUGE"
    /\ pc_feux' = suspendu("S1", config.duree_vert_a)
    /\ queue' = attendre(reste, 0, config.duree_vert_a)

FeuxStart_rel ==
    /\ Pops("Initialize", "feux")
    /\ EntrerS1_rel
    /\ UNCHANGED <<now, running, erreur, stats, visu_vars, config, nombre_cycles, historique_etats,
                   gen_vars, lane_vars>>

FeuxS2_rel ==
    /\ Pops("Timeout", "feux") /\ pc_feux = "S1"
    /\ etat_actuel' = "S2"
    /\ feu_a' = "JAUNE"
    /\ pc_feux' = suspendu("S2", config.duree_jaune)
    /\ queue' = attendre(reste, 0, config.duree_jaune)
    /\ UNCHANGED <<now, running, erreur, stats, visu_vars, config, nombre_cycles, historique_etats,
                   feu_b, feu_pietons, gen_vars, lane_vars>>

FeuxS3_rel ==
    /\ Pops("Timeout", "feux") /\ pc_feux = "S2"
    /\ etat_actuel' = "S3"
    /\ feu_a' = "ROUGE"
    /\ feu_b' = "VERT"
    /\ pc_feux' = suspendu("S3", config.duree_vert_b)
    /\ queue' = attendre(reste, 0, config.duree_vert_b)
    /\ UNCHANGED <<now, running, erreur, stats, visu_vars, config, nombre_cycles, historique_etats,
                   feu_pietons, gen_vars, lane_vars>>

FeuxS4_rel ==
    /\ Pops("Timeout", "feux") /\ pc_feux = "S3"
    /\ etat_actuel' = "S4"
    /\ feu_b' = "JAUNE"
    /\ pc_feux' = suspendu("S4", config.duree_jaune)
    /\ queue' = attendre(reste, 0, config.duree_jaune)
    /\ UNCHANGED <<now, running, erreur, stats, visu_vars, config, nombre_cycles, historique_etats,
                   feu_a, feu_pietons, gen_vars, lane_vars>>

FeuxS5_rel ==
    /\ Pops("Timeout", "feux") /\ pc_feux = "S4"
    /\ etat_actuel' = "S5"
    /\ feu_b' = "ROUGE"
    /\ feu_pietons' = "VERT"
    /\ pc_feux' = suspendu("S5", config.duree_pietons)
    /\ queue' = attendre(reste, 0, config.duree_pietons)
    /\ UNCHANGED <<now, running, erreur, stats, visu_vars, config, nombre_cycles, historique_etats,
                   feu_a, gen_vars, lane_vars>>

FeuxFinCycle_rel ==
    /\ Pops("Timeout", "feux") /\ pc_feux = "S5"
    /\ EntrerS1_rel
    /\ UNCHANGED <<now, running, erreur, stats, visu_vars, config, nombre_cycles, historique_etats,
                   gen_vars, lane_vars>>

Feux_rel ==
    FeuxStart_rel \/ FeuxS2_rel \/ FeuxS3_rel \/ FeuxS4_rel \/ FeuxS5_rel \/ FeuxFinCycle_rel

GenStart_rel(l) ==
    /\ Pops("Initialize", "gen") /\ ev.lane = l
    /\ ProchaineArrivee(l, reste, 0)
    /\ UNCHANGED <<now, running, erreur, stats, visu_vars, config, feux_vars, compteur, lambdas,
                   vehicules, lane_vars>>

GenArrive_rel(l) ==
    /\ Pops("Timeout", "gen") /\ ev.lane = l
    /\ compteur[l] < MaxVeh
    /\ compteur' = [compteur EXCEPT ![l] = @ + 1]
    /\ vehicules' = [vehicules EXCEPT ![l] = Append(@, compteur[l] + 1)]
    /\ veh' = [veh EXCEPT ![l][compteur[l] + 1] =
                 [pc |-> "init", temps_arrivee |-> 0,
                  temps_depart |-> None, temps_attente |-> 0]]
    /\ LET q == process(reste, 0, "veh", l, compteur[l] + 1)
       IN  IF compteur[l] + 1 < MaxVeh
           THEN ProchaineArrivee(l, q, 0)
           ELSE /\ queue' = q
                /\ pc_gen' = [pc_gen EXCEPT ![l] = "cut"]
    /\ UNCHANGED <<now, running, erreur, stats, visu_vars, config, feux_vars, lambdas, file,
                   vehicules_total, nombre_vehicules_servis, temps_attente_total,
                   users, put_queue>>

VehStart_rel(l, i) ==
    /\ Pops("Initialize", "veh") /\ ev.lane = l /\ ev.id = i
    /\ file' = [file EXCEPT ![l] = ajouter_vehicule(@, i)]
    /\ vehicules_total' = [vehicules_total EXCEPT ![l] = @ + 1]
    /\ AttendreFeu(l, i, reste, 0, veh)
    /\ UNCHANGED <<now, running, erreur, stats, visu_vars, config, feux_vars, gen_vars,
                   nombre_vehicules_servis, temps_attente_total>>

VehPoll_rel(l, i) ==
    /\ Pops("Timeout", "veh") /\ ev.lane = l /\ ev.id = i
    /\ veh[l][i].pc = "poll"
    /\ AttendreFeu(l, i, reste, 0, veh)
    /\ UNCHANGED <<now, running, erreur, stats, visu_vars, config, feux_vars, gen_vars, file,
                   vehicules_total, nombre_vehicules_servis, temps_attente_total>>

VehAdmit_rel(l, i) ==
    /\ Pops("Request", "veh") /\ ev.lane = l /\ ev.id = i
    /\ file' = [file EXCEPT ![l] = retirer_vehicule(@)]
    /\ veh' = [veh EXCEPT ![l][i].pc = "crossing"]
    /\ queue' = timeout(reste, 0, CrossTicks, "veh", l, i)
    /\ UNCHANGED <<now, running, erreur, stats, visu_vars, config, feux_vars, gen_vars,
                   vehicules_total, nombre_vehicules_servis, temps_attente_total,
                   users, put_queue>>

\* mutant: the request is made without the with-block, so the departing
\* vehicle keeps the resource
VehDepart_rel_sans_release(l, i) ==
    /\ Pops("Timeout", "veh") /\ ev.lane = l /\ ev.id = i
    /\ veh[l][i].pc = "crossing"
    /\ veh' = [veh EXCEPT ![l][i].pc = "done", ![l][i].temps_depart = 0]
    /\ nombre_vehicules_servis' = [nombre_vehicules_servis EXCEPT ![l] = @ + 1]
    /\ queue' = schedule(reste, Event(0, FALSE, "Process", "veh", l, i))
    /\ UNCHANGED <<now, running, erreur, stats, visu_vars, config, feux_vars, gen_vars, file,
                   vehicules_total, temps_attente_total, users, put_queue>>

\* step 4 of the process: the departure and the end of the with-block
VehDepart_rel(l, i) ==
    /\ Pops("Timeout", "veh") /\ ev.lane = l /\ ev.id = i
    /\ veh[l][i].pc = "crossing"
    /\ veh' = [veh EXCEPT ![l][i].pc = "done", ![l][i].temps_depart = 0]
    /\ nombre_vehicules_servis' = [nombre_vehicules_servis EXCEPT ![l] = @ + 1]
    /\ LET r == release(users[l], reste, 0, l, i)
       IN  /\ users' = [users EXCEPT ![l] = r.users]
           /\ queue' = schedule(r.queue, Event(0, FALSE, "Process", "veh", l, i))
    /\ UNCHANGED <<now, running, erreur, stats, visu_vars, config, feux_vars, gen_vars, file,
                   vehicules_total, temps_attente_total, put_queue>>

StepRelease_rel(l) ==
    /\ Pops("Release", "-") /\ ev.lane = l
    /\ LET r == trigger_put(users[l], put_queue[l], reste, 0, l)
       IN  /\ queue' = r.queue
           /\ users' = [users EXCEPT ![l] = r.users]
           /\ put_queue' = [put_queue EXCEPT ![l] = r.put_queue]
    /\ UNCHANGED <<now, running, erreur, stats, visu_vars, config, feux_vars, gen_vars, veh, file,
                   vehicules_total, nombre_vehicules_servis, temps_attente_total>>

StepProcess_rel ==
    /\ Pops("Process", "veh")
    /\ queue' = reste
    /\ UNCHANGED <<now, running, erreur, stats, visu_vars, config, feux_vars, gen_vars, lane_vars>>

\* the caller runs the simulation again, MaxTime ticks further, whenever a
\* run has returned
NextLive ==
    \/ Run(MaxTime)
    \/ StepUntil_rel
    \/ Feux_rel
    \/ \E l \in Lanes : GenStart_rel(l) \/ GenArrive_rel(l) \/ StepRelease_rel(l)
    \/ \E l \in Lanes, i \in VehIds :
           VehStart_rel(l, i) \/ VehPoll_rel(l, i) \/ VehAdmit_rel(l, i) \/ VehDepart_rel(l, i)
    \/ StepProcess_rel

\* env.run always takes the next step while the event list has an entry
SpecLive == InitLive /\ [][NextLive]_vars /\ WF_vars(NextLive)

\* ------------------------------------------- the visual simulations
\* src/visualisation/simulation_visuelle.py: the simulation thread runs
\* _executer, the render thread runs main's loop, which calls
\* traiter_evenements.  The two share the Queue evenements and the
\* CarrefourGraphique; a step of either thread is one action.  What the
\* render thread only draws (the lists of VoitureGraphique, the running
\* means, the throughput) is read by no process and is left out.
\* SystemeFeux is built but gerer_cycle is not registered, so etat_actuel
\* and the three Feu keep their initial values.

\* env.run(until=self.env.now + 0.1), in ticks
PasTicks == 2

\* an entry of evenements: ('feu_a', colour), ('nouvelle_a', v), ...
Evt(ty, l, v) == [type |-> ty, lane |-> l, val |-> v]

\* carrefour.couleur_feu_a / couleur_feu_b as the simulation thread reads it
Couleur(l) == IF l = "A" THEN couleur_feu_a ELSE couleur_feu_b

\* the configurations of the visual runs (ticks)
ConfigsVisu ==
    {[duree_vert_a |-> 1, duree_vert_b |-> 2, duree_jaune |-> 1, duree_pietons |-> 1],
     [duree_vert_a |-> 2, duree_vert_b |-> 1, duree_jaune |-> 0, duree_pietons |-> 2]}

\* _executer: the three processes registered, CarrefourGraphique as built
InitVisu ==
    /\ InitCommon
    /\ config \in ConfigsVisu
    /\ pc_gen = [l \in Lanes |-> "init"]
    /\ lambdas = [l \in Lanes |-> 1]
    /\ queue = process(process(process(<<>>, 0, "feux", "-", 0), 0, "gen", "A", 0),
                       0, "gen", "B", 0)

\* the loop of _executer: the simulation is run 0.1 s further
Avancer ==
    /\ now + PasTicks <= MaxTime
    /\ Run(now + PasTicks)

\* _gerer_feux, first block: A green and B red are announced
VisuFeuxS1 ==
    /\ \/ Pops("Initialize", "feux")
       \/ Pops("Timeout", "feux") /\ pc_feux = "S5"
    /\ now' = ev.time
    /\ evenements' = Append(Append(evenements, Evt("feu", "A", "green")), Evt("feu", "B", "red"))
    /\ pc_feux' = "S1"
    /\ queue' = timeout(pop(queue), ev.time, config.duree_vert_a, "feux", "-", 0)
    /\ UNCHANGED <<running, erreur, stats, config, etat_actuel, nombre_cycles, feu_a, feu_b,
                   feu_pietons, historique_etats, gen_vars, lane_vars,
                   couleur_feu_a, couleur_feu_b, attente, voie_servis>>

VisuFeuxS2 ==
    /\ Pops("Timeout", "feux") /\ pc_feux = "S1"
    /\ now' = ev.time
    /\ evenements' = Append(evenements, Evt("feu", "A", "orange"))
    /\ pc_feux' = "S2"
    /\ queue' = timeout(pop(queue), ev.time, config.duree_jaune, "feux", "-", 0)
    /\ UNCHANGED <<running, erreur, stats, config, etat_actuel, nombre_cycles, feu_a, feu_b,
                   feu_pietons, historique_etats, gen_vars, lane_vars,
                   couleur_feu_a, couleur_feu_b, attente, voie_servis>>

VisuFeuxS3 ==
    /\ Pops("Timeout", "feux") /\ pc_feux = "S2"
    /\ now' = ev.time
    /\ evenements' = Append(Append(evenements, Evt("feu", "A", "red")), Evt("feu", "B", "green"))
    /\ pc_feux' = "S3"
    /\ queue' = timeout(pop(queue), ev.time, config.duree_vert_b, "feux", "-", 0)
    /\ UNCHANGED <<running, erreur, stats, config, etat_actuel, nombre_cycles, feu_a, feu_b,
                   feu_pietons, historique_etats, gen_vars, lane_vars,
                   couleur_feu_a, couleur_feu_b, attente, voie_servis>>

VisuFeuxS4 ==
    /\ Pops("Timeout", "feux") /\ pc_feux = "S3"
    /\ now' = ev.time
    /\ evenements' = Append(evenements, Evt("feu", "B", "orange"))
    /\ pc_feux' = "S4"
    /\ queue' = timeout(pop(queue), ev.time, config.duree_jaune, "feux", "-", 0)
    /\ UNCHANGED <<running, erreur, stats, config, etat_actuel, nombre_cycles, feu_a, feu_b,
                   feu_pietons, historique_etats, gen_vars, lane_vars,
                   couleur_feu_a, couleur_feu_b, attente, voie_servis>>

VisuFeuxS5 ==
    /\ Pops("Timeout", "feux") /\ pc_feux = "S4"
    /\ now' = ev.time
    /\ evenements' = Append(evenements, Evt("feu", "B", "red"))
    /\ pc_feux' = "S5"
    /\ queue' = timeout(pop(queue), ev.time, config.duree_pietons, "feux", "-", 0)
    /\ UNCHANGED <<running, erreur, stats, config, etat_actuel, nombre_cycles, feu_a, feu_b,
                   feu_pietons, historique_etats, gen_vars, lane_vars,
                   couleur_feu_a, couleur_feu_b, attente, voie_servis>>

VisuFeux == VisuFeuxS1 \/ VisuFeuxS2 \/ VisuFeuxS3 \/ VisuFeuxS4 \/ VisuFeuxS5

\* _generer_a / _generer_b resumed after the gap: the Vehicule is created,
\* announced, its process registered, and the next gap is drawn.  After
\* MaxVeh vehicles the generator is cut off.
VisuGenArrive(l) ==
    /\ Pops("Timeout", "gen") /\ ev.lane = l
    /\ compteur[l] < MaxVeh
    /\ now' = ev.time
    /\ compteur' = [compteur EXCEPT ![l] = @ + 1]
    /\ veh' = [veh EXCEPT ![l][compteur[l] + 1] =
                 [pc |-> "init", temps_arrivee |-> ev.time,
                  temps_depart |-> None, temps_attente |-> 0]]
    /\ evenements' = Append(evenements, Evt("nouvelle", l, compteur[l] + 1))
    /\ LET q == process(pop(queue), ev.time, "veh", l, compteur[l] + 1)
       IN  IF compteur[l] + 1 < MaxVeh
           THEN ProchaineArrivee(l, q, ev.time)
           ELSE /\ queue' = q
                /\ pc_gen' = [pc_gen EXCEPT ![l] = "cut"]
    /\ UNCHANGED <<running, erreur, stats, config, feux_vars, lambdas, vehicules, file,
                   vehicules_total, nombre_vehicules_servis, temps_attente_total,
                   users, put_queue, couleur_feu_a, couleur_feu_b, attente, voie_servis>>

\* _attendre_et_passer_a / _b from the colour check to the next yield
AttendreCouleur(l, i, q, t) ==
    IF Couleur(l) # "green"
    THEN /\ queue' = timeout(q, t, PollTicks, "veh", l, i)
         /\ veh' = [veh EXCEPT ![l][i].pc = "poll"]
         /\ UNCHANGED <<users, put_queue>>
    ELSE LET r == request(users[l], put_queue[l], q, t, l, i)
         IN  /\ queue' = r.queue
             /\ users' = [users EXCEPT ![l] = r.users]
             /\ put_queue' = [put_queue EXCEPT ![l] = r.put_queue]
             /\ veh' = [veh EXCEPT ![l][i].pc = "request"]

\* the process starts, or is resumed after a 0.1 s poll
VisuVehCheck(l, i) ==
    /\ \/ Pops("Initialize", "veh")
       \/ Pops("Timeout", "veh") /\ veh[l][i].pc = "poll"
    /\ ev.lane = l /\ ev.id = i
    /\ now' = ev.time
    /\ AttendreCouleur(l, i, pop(queue), ev.time)
    /\ UNCHANGED <<running, erreur, stats, visu_vars, config, feux_vars, gen_vars, file,
                   vehicules_total, nombre_vehicules_servis, temps_attente_total>>

\* resumed with the resource: 'passer' is announced, the crossing starts
VisuVehAdmit(l, i) ==
    /\ Pops("Request", "veh") /\ ev.lane = l /\ ev.id = i
    /\ now' = ev.time
    /\ evenements' = Append(evenements, Evt("passer", l, i))
    /\ veh' = [veh EXCEPT ![l][i].pc = "crossing"]
    /\ queue' = timeout(pop(queue), ev.time, CrossTicks, "veh", l, i)
    /\ UNCHANGED <<running, erreur, stats, config, feux_vars, gen_vars, file, vehicules_total,
                   nombre_vehicules_servis, temps_attente_total, users, put_queue,
                   couleur_feu_a, couleur_feu_b, attente, voie_servis>>

\* resumed after the crossing: temps_depart and temps_attente are set,
\* the wait is announced, the with-block releases the resource
VisuVehDepart(l, i) ==
    /\ Pops("Timeout", "veh") /\ ev.lane = l /\ ev.id = i
    /\ veh[l][i].pc = "crossing"
    /\ now' = ev.time
    /\ veh' = [veh EXCEPT ![l][i].pc = "done", ![l][i].temps_depart = ev.time,
                          ![l][i].temps_attente = ev.time - veh[l][i].temps_arrivee]
    /\ evenements' = Append(evenements, Evt("stats", l, ev.time - veh[l][i].temps_arrivee))
    /\ LET r == release(users[l], pop(queue), ev.time, l, i)
       IN  /\ users' = [users EXCEPT ![l] = r.users]
           /\ queue' = schedule(r.queue, Event(ev.time, FALSE, "Process", "veh", l, i))
    /\ UNCHANGED <<running, erreur, stats, config, feux_vars, gen_vars, file, vehicules_total,
                   nombre_vehicules_servis, temps_attente_total, put_queue,
                   couleur_feu_a, couleur_feu_b, attente, voie_servis>>

\* the render thread, one turn of the loop of traiter_evenements: the
\* oldest entry of evenements is taken and applied
traiter_evenements ==
    /\ evenements # <<>>
    /\ evenements' = Tail(evenements)
    /\ LET evt == Head(evenements)
       IN  /\ couleur_feu_a' = IF evt.type = "feu" /\ evt.lane = "A" THEN evt.val
                               ELSE couleur_feu_a
           /\ couleur_feu_b' = IF evt.type = "feu" /\ evt.lane = "B" THEN evt.val
                               ELSE couleur_feu_b
           /\ attente' = CASE evt.type = "nouvelle" -> [attente EXCEPT ![evt.lane] = @ + 1]
                           [] evt.type = "passer" ->
                                 [attente EXCEPT ![evt.lane] = IF @ >= 1 THEN @ - 1 ELSE 0]
                           [] OTHER -> attente
           /\ voie_servis' = IF evt.type = "passer"
                           THEN [voie_servis EXCEPT ![evt.lane] = @ + 1]
                           ELSE voie_servis
    /\ UNCHANGED <<prog_vars, stats>>

NextVisu ==
    \/ Avancer
    \/ StepUntil
    \/ VisuFeux
    \/ \E l \in Lanes : GenStart(l) \/ VisuGenArrive(l) \/ StepRelease(l)
    \/ \E l \in Lanes, i \in VehIds :
           VisuVehCheck(l, i) \/ VisuVehAdmit(l, i) \/ VisuVehDepart(l, i)
    \/ StepProcess
    \/ traiter_evenements

SpecVisu == InitVisu /\ [][NextVisu]_vars

\* src/tasnim_visualisation/simulation_visuelle.py: the same threads,
\* Queue and _gerer_feux (its colours VERT_FEU, JAUNE_FEU, ROUGE_FEU are
\* written green, orange, red), but the generator of a lane itself waits
\* for the green of the vehicle it has just created.

\* _generer_voie_a / _b from the colour check to the next yield: not green
\* -> timeout(0.1); green -> 'passer' and the wait are announced and the
\* next gap is drawn.  evts is the Queue as the step has left it so far.
TasnimAttendre(l, i, evts, arrivee, t) ==
    IF Couleur(l) # "green"
    THEN /\ queue' = timeout(pop(queue), t, PollTicks, "gen", l, 0)
         /\ pc_gen' = [pc_gen EXCEPT ![l] = "poll"]
         /\ veh' = [veh EXCEPT ![l][i] = [pc |-> "poll", temps_arrivee |-> arrivee,
                                         temps_depart |-> None, temps_attente |-> 0]]
         /\ evenements' = evts
    ELSE /\ veh' = [veh EXCEPT ![l][i] = [pc |-> "done", temps_arrivee |-> arrivee,
                                         temps_depart |-> t, temps_attente |-> t - arrivee]]
         /\ evenements' = Append(Append(evts, Evt("passer", l, i)), Evt("stats", l, t - arrivee))
         /\ IF i < MaxVeh
            THEN ProchaineArrivee(l, pop(queue), t)
            ELSE /\ queue' = pop(queue)
                 /\ pc_gen' = [pc_gen EXCEPT ![l] = "cut"]

\* resumed after the gap: the Vehicule is created and announced, then the
\* colour check
TasnimArrive(l) ==
    /\ Pops("Timeout", "gen") /\ ev.lane = l
    /\ pc_gen[l] = "attente"
    /\ compteur[l] < MaxVeh
    /\ now' = ev.time
    /\ compteur' = [compteur EXCEPT ![l] = @ + 1]
    /\ TasnimAttendre(l, compteur[l] + 1,
                      Append(evenements, Evt("nouvelle", l, compteur[l] + 1)),
                      ev.time, ev.time)
    /\ UNCHANGED <<running, erreur, stats, config, feux_vars, lambdas, vehicules, file,
                   vehicules_total, nombre_vehicules_servis, temps_attente_total,
                   users, put_queue, couleur_feu_a, couleur_feu_b, attente, voie_servis>>

\* resumed after a 0.1 s poll: the colour check again
TasnimPoll(l) ==
    /\ Pops("Timeout", "gen") /\ ev.lane = l
    /\ pc_gen[l] = "poll"
    /\ now' = ev.time
    /\ TasnimAttendre(l, compteur[l], evenements, veh[l][compteur[l]].temps_arrivee, ev.time)
    /\ UNCHANGED <<running, erreur, stats, config, feux_vars, compteur, lambdas, vehicules,
                   file, vehicules_total, nombre_vehicules_servis, temps_attente_total,
                   users, put_queue, couleur_feu_a, couleur_feu_b, attente, voie_servis>>

NextTasnim ==
    \/ Avancer
    \/ StepUntil
    \/ VisuFeux
    \/ \E l \in Lanes : GenStart(l) \/ TasnimArrive(l) \/ TasnimPoll(l)
    \/ traiter_evenements

SpecTasnim == InitVisu /\ [][NextTasnim]_vars

\* ====================================================================
\* Properties
\* ====================================================================
\* vehicles between admission (the with-block body entered) and departure
Crossing(l) == {i \in VehIds : veh[l][i].pc = "crossing"}
Admitted(l, i) == veh[l][i].pc \in {"crossing", "done"}
Departed(l, i) == veh[l][i].temps_depart # None
Arrived(l, i) == veh[l][i].pc # "absent"

\* C1: whenever a vehicle is between admission and departure, its lane's
\* light permits crossing.
C1_CrossingOnlyWhileGreen ==
    \A l \in Lanes : Crossing(l) # {} => peut_passer(l)

\* C2: peut_passer_voie_a and peut_passer_voie_b are never both true, and
\* in the Pedestrian phase S5 both are false.
C2_MutualExclusion ==
    /\ ~(peut_passer_voie_a /\ peut_passer_voie_b)
    /\ etat_actuel = "S5" => (~peut_passer_voie_a /\ ~peut_passer_voie_b)

C2_Witness == etat_actuel = "S5" /\ nombre_cycles >= 1

\* C3: within a lane, a vehicle that arrived strictly earlier is admitted
\* first and departs no later.
C3_FIFO ==
    \A l \in Lanes : \A i, j \in VehIds :
        (Arrived(l, i) /\ Arrived(l, j)
           /\ veh[l][i].temps_arrivee < veh[l][j].temps_arrivee)
        => /\ Admitted(l, j) => Admitted(l, i)
           /\ Departed(l, j) =>
                (Departed(l, i) /\ veh[l][i].temps_depart <= veh[l][j].temps_depart)

\* C4: per lane, arrived = served + waiting + crossing, in every state; and
\* whenever env.run has returned the vehicles crossing are exactly the
\* users of the lane's resource.
C4_Conservation ==
    \A l \in Lanes :
        /\ vehicules_total[l] =
              nombre_vehicules_servis[l] + Len(file[l]) + Cardinality(Crossing(l))
        /\ nombre_vehicules_servis[l] <= vehicules_total[l]
        /\ ~running => Len(users[l]) = Cardinality(Crossing(l))

C4_Witness ==
    \E l \in Lanes : /\ nombre_vehicules_servis[l] >= 1
                     /\ Cardinality(Crossing(l)) = 1
                     /\ ~running

\* C5: when env.run(until = k * duree_cycle) has returned, k >= 1,
\* nombre_cycles = k and the phase is S1.
C5_CyclesAtLimit ==
    (/\ ~running
     /\ now > 0
     /\ duree_cycle(config) > 0
     /\ now % duree_cycle(config) = 0)
    => /\ nombre_cycles = now \div duree_cycle(config)
       /\ etat_actuel = "S1"

\* C6: at most one vehicle of a lane holds its crossing resource, however
\* many have requested it.
C6_CapacityOne ==
    \A l \in Lanes : Len(users[l]) <= 1 /\ Cardinality(Crossing(l)) <= 1

C6_Witness ==
    \E l \in Lanes : Cardinality(Crossing(l)) = 1 /\ put_queue[l] # <<>>

\* C7: in every step that admits a vehicle (its request is granted and
\* the head of the waiting list removed), the lane's light is green.
C7_AdmitOnlyOnGreen ==
    [][\A l \in Lanes : \A i \in VehIds :
          (veh[l][i].pc = "request" /\ veh'[l][i].pc = "crossing") => peut_passer(l)]_vars

\* C8: a set temps_depart is never earlier than temps_arrivee, and
\* temps_attente is never negative.
C8_NonNegativeWait ==
    \A l \in Lanes : \A i \in VehIds :
        /\ Departed(l, i) => veh[l][i].temps_depart >= veh[l][i].temps_arrivee
        /\ veh[l][i].temps_attente >= 0

C8_Witness ==
    \E l \in Lanes : \E i \in VehIds : Departed(l, i) /\ veh[l][i].temps_attente > 0

\* the sum of temps_attente over the served vehicles of a lane
RECURSIVE SommeAttente(_, _)
SommeAttente(l, n) ==
    IF n = 0 THEN 0
    ELSE SommeAttente(l, n - 1)
         + (IF Departed(l, n) THEN veh[l][n].temps_attente ELSE 0)

\* C9 (as claimed): the wait recorded for a served vehicle is
\* temps_depart - temps_arrivee.
C9_WaitIsDepartureMinusArrival ==
    \A l \in Lanes : \A i \in VehIds :
        Departed(l, i) =>
            veh[l][i].temps_attente = veh[l][i].temps_depart - veh[l][i].temps_arrivee

\* C9 (amended): the wait recorded for a served vehicle is its admission
\* time minus its arrival time, i.e. the departure time less the crossing
\* time less the arrival time, and temps_attente_total is the sum of these
\* waits over the served vehicles of the lane.
C9_WaitIsAdmissionMinusArrival ==
    \A l \in Lanes :
        /\ \A i \in VehIds :
              Departed(l, i) =>
                  veh[l][i].temps_attente =
                      veh[l][i].temps_depart - CrossTicks - veh[l][i].temps_arrivee
        /\ temps_attente_total[l] = SommeAttente(l, MaxVeh)

C9_Witness ==
    \E l \in Lanes : /\ nombre_vehicules_servis[l] = MaxVeh
                     /\ temps_attente_total[l] > 0

\* C10: the controller starts in S1 (A green, B red, no cycle counted) and
\* every change of etat_actuel goes to the next phase of
\* S1 -> S2 -> S3 -> S4 -> S5 -> S1.
Suivant(e) ==
    CASE e = "S1" -> "S2" [] e = "S2" -> "S3" [] e = "S3" -> "S4"
      [] e = "S4" -> "S5" [] e = "S5" -> "S1"

C10_StrictCycle ==
    /\ (etat_actuel = "S1" /\ feu_a = "VERT" /\ feu_b = "ROUGE" /\ nombre_cycles = 0)
    /\ [][etat_actuel' # etat_actuel => etat_actuel' = Suivant(etat_actuel)]_vars

C10_Witness == etat_actuel = "S2" /\ nombre_cycles >= 1

\* C11: peut_passer_voie_a is true exactly in S1 and peut_passer_voie_b
\* exactly in S3; in a lane's own yellow phase it is false.
C11_GreenPhaseOnly ==
    /\ peut_passer_voie_a <=> etat_actuel = "S1"
    /\ peut_passer_voie_b <=> etat_actuel = "S3"

C11_Witness == etat_actuel = "S4" /\ feu_b = "JAUNE" /\ nombre_cycles >= 1

\* C13: a vehicle is in its lane's waiting list exactly from its arrival
\* (ajouter_vehicule) until its own admission.
InFile(l, i) == \E k \in 1..Len(file[l]) : file[l][k] = i

C13_QueueMembership ==
    \A l \in Lanes : \A i \in VehIds :
        InFile(l, i) <=> veh[l][i].pc \in {"poll", "request"}

\* C17: when env.run(until=limit) has returned, no wake-up of time <= limit
\* is left pending.
C17_NothingPendingAtLimit ==
    (~running /\ now > 0) => \A k \in 1..Len(queue) : queue[k].time > now

\* the configured duration of a phase
Duree(e) ==
    CASE e = "S1" -> config.duree_vert_a
      [] e = "S2" -> config.duree_jaune
      [] e = "S3" -> config.duree_vert_b
      [] e = "S4" -> config.duree_jaune
      [] e = "S5" -> config.duree_pietons

\* C12: a phase entered at time t is left at exactly t + its configured
\* duration, and etat_actuel is that phase at every time in between.
C12_PhaseHeld ==
    /\ \A k \in 1..(Len(historique_etats) - 1) :
          historique_etats[k + 1].temps =
              historique_etats[k].temps + Duree(historique_etats[k].etat)
    /\ historique_etats # <<>> =>
          LET last == historique_etats[Len(historique_etats)]
          IN  /\ etat_actuel = last.etat
              /\ last.temps <= now
              /\ now <= last.temps + Duree(last.etat)

C12_Witness ==
    /\ nombre_cycles >= 1
    /\ etat_actuel = "S3"
    /\ now > historique_etats[Len(historique_etats)].temps
    /\ \A e \in {"S1", "S2", "S3", "S4", "S5"} : Duree(e) > 0

Negative(c) ==
    c.duree_vert_a < 0 \/ c.duree_vert_b < 0 \/ c.duree_jaune < 0 \/ c.duree_pietons < 0

\* C14: with a negative duration in the configuration, no phase
\* transition, no arrival and no clock advance ever happens.
C14_NegativeDurationRejected ==
    Negative(config) =>
        /\ historique_etats = <<>>
        /\ \A l \in Lanes : compteur[l] = 0
        /\ now = 0

\* C15: with all durations zero, the controller process is never started.
C15_ZeroCycleRejected ==
    (/\ config.duree_vert_a = 0 /\ config.duree_vert_b = 0
     /\ config.duree_jaune = 0 /\ config.duree_pietons = 0)
    => pc_feux = "init"

\* C16: with an arrival rate of 0, the lane's generator creates no vehicle
\* and no division by zero is raised.
C16_ZeroRateSilent ==
    \A l \in Lanes : lambdas[l] = 0 => (compteur[l] = 0 /\ erreur # "ZeroDivisionError")

\* the entries of the event list that resume a process when popped: its
\* start, the end of a timeout, the grant of a request
Reprise(e) == e.type \in {"Initialize", "Timeout", "Request"}
MemeEvenement(e, f) ==
    /\ e.time = f.time /\ e.type = f.type
    /\ e.proc = f.proc /\ e.lane = f.lane /\ e.id = f.id

\* every step of the run pops one entry only: all others are still pending
UnParPas ==
    running =>
        \A k \in 2..Len(queue) : \E m \in 1..Len(queue') : MemeEvenement(queue[k], queue'[m])

C21_TimeMonotone ==
    /\ [](\A k \in 1..Len(queue) : queue[k].time >= now)
    /\ [][/\ now' >= now
          /\ (running /\ queue # <<>> /\ ev.type = "Timeout" /\ queue' # queue)
                => now' >= ev.time]_vars

C21_Witness ==
    /\ now > 0
    /\ \E l \in Lanes : \E i \in VehIds : veh[l][i].pc = "crossing"
    /\ \E l \in Lanes : \E i \in VehIds : veh[l][i].pc = "poll"
    /\ \E k \in 1..Len(queue) : queue[k].type = "Timeout" /\ queue[k].proc = "gen"

\* C22: a step that returns a snapshot changes nothing of the simulation:
\* clock, event list, phase, lights, queues, resources, vehicles, counters.
C22_SnapshotsArePure ==
    [][(stats' # stats /\ stats' # NoStats) => UNCHANGED prog_vars]_vars

C22_Witness ==
    /\ stats.source = "intersection"
    /\ stats.voie_a.vehicules_servis >= 1
    /\ stats.voie_a.longueur_file_actuelle >= 1
    /\ stats.voie_b.vehicules_total >= 1

\* C23: per lane the k-th vehicle created has id k, its temps_arrivee is
\* the clock time at which it is created and at which it joins the waiting
\* list, and arrival times are non-decreasing in id order.
C23_IdsAndArrivalTimes ==
    /\ [](\A l \in Lanes :
            /\ vehicules[l] = [k \in 1..compteur[l] |-> k]
            /\ \A i \in VehIds : Arrived(l, i) <=> i <= compteur[l]
            /\ \A i, j \in 1..compteur[l] :
                  i < j => veh[l][i].temps_arrivee <= veh[l][j].temps_arrivee)
    /\ [][\A l \in Lanes : \A i \in VehIds :
            /\ (~Arrived(l, i) /\ veh'[l][i].pc # "absent")
                  => (i = compteur[l] + 1 /\ veh'[l][i].temps_arrivee = now')
            /\ (~InFile(l, i) /\ \E k \in 1..Len(file'[l]) : file'[l][k] = i)
                  => veh[l][i].temps_arrivee = now']_vars

C23_Witness ==
    \E l \in Lanes :
        /\ compteur[l] >= 2
        /\ veh[l][1].temps_arrivee > 0
        /\ veh[l][2].temps_arrivee > veh[l][1].temps_arrivee
        /\ InFile(l, 2)

\* C24: a vehicle whose departure is recorded is in no collection any
\* more: neither its lane's waiting list nor the generator's vehicle list.
C24_DepartedUntracked ==
    \A l \in Lanes : \A i \in VehIds :
        Departed(l, i) =>
            /\ ~InFile(l, i)
            /\ \A k \in 1..Len(vehicules[l]) : vehicules[l][k] # i

\* C28: in the Pedestrian phase S5 no vehicle of either lane holds a
\* crossing resource.
C28_NobodyCrossesInS5 ==
    etat_actuel = "S5" => \A l \in Lanes : users[l] = <<>>

\* C29: a lane-A vehicle and a lane-B vehicle never hold their crossing
\* resources at the same time.
C29_CrossTrafficExclusion ==
    ~(users["A"] # <<>> /\ users["B"] # <<>>)

\* the green phase of a lane and its configured duration
EtatVert(l) == IF l = "A" THEN "S1" ELSE "S3"
DureeVert(l) == IF l = "A" THEN config.duree_vert_a ELSE config.duree_vert_b

\* at time t vehicle i of lane l, whose light check has failed so far, is
\* later than one polling interval after a turn to green that followed
\* its arrival
EnRetard(l, i, t) ==
    \E k \in 1..Len(historique_etats) :
        /\ historique_etats[k].etat = EtatVert(l)
        /\ historique_etats[k].temps > veh[l][i].temps_arrivee
        /\ t > historique_etats[k].temps + PollTicks

\* C26 as stated: for every configuration, a vehicle whose light check
\* failed passes the check within one polling interval of every later
\* turn to green of its lane.
C26_BoundedPollingLatency ==
    /\ [](\A l \in Lanes : \A i \in VehIds :
            veh[l][i].pc = "poll" => ~EnRetard(l, i, now))
    /\ [][\A l \in Lanes : \A i \in VehIds :
            (veh[l][i].pc = "poll" /\ veh'[l][i].pc = "request")
                => ~EnRetard(l, i, now')]_vars

\* C26 amended: the same when the lane's green lasts at least one polling
\* interval.
C26_BoundedPollingLatencyLongGreen ==
    /\ [](\A l \in Lanes : \A i \in VehIds :
            (veh[l][i].pc = "poll" /\ DureeVert(l) >= PollTicks)
                => ~EnRetard(l, i, now))
    /\ [][\A l \in Lanes : \A i \in VehIds :
            (veh[l][i].pc = "poll" /\ veh'[l][i].pc = "request"
               /\ DureeVert(l) >= PollTicks)
                => ~EnRetard(l, i, now')]_vars

C26_Witness ==
    \E l \in Lanes : \E i \in VehIds :
        /\ veh[l][i].pc = "request"
        /\ DureeVert(l) >= PollTicks
        /\ veh[l][i].temps_arrivee < now
        /\ historique_etats[Len(historique_etats)].etat = EtatVert(l)
        /\ historique_etats[Len(historique_etats)].temps > veh[l][i].temps_arrivee
        /\ \A k \in 1..(Len(historique_etats) - 1) : historique_etats[k].etat # EtatVert(l)

\* C25 as stated: with positive green durations for both lanes, every
\* vehicle that has arrived eventually departs, in a simulation that is
\* run on without end.
C25_EveryVehicleDeparts ==
    \A l \in Lanes : \A i \in VehIds :
        (Arrived(l, i) /\ config.duree_vert_a > 0 /\ config.duree_vert_b > 0)
            ~> Departed(l, i)

\* C25 amended: the same with green durations of at least one polling
\* interval for both lanes.
C25_EveryVehicleDepartsLongGreen ==
    \A l \in Lanes : \A i \in VehIds :
        (Arrived(l, i) /\ config.duree_vert_a >= PollTicks /\ config.duree_vert_b >= PollTicks)
            ~> Departed(l, i)

C25_Witness ==
    \E l \in Lanes :
        /\ config.duree_vert_a >= PollTicks /\ config.duree_vert_b >= PollTicks
        /\ Departed(l, 1)
        /\ veh[l][2].pc = "poll"

\* C27: every run to a finite limit returns, for every configuration of
\* non-negative durations.
C27_RunTerminates ==
    running ~> ~running

\* the instant at which a vehicle was given the resource and entered the
\* with-block: temps_attente is that instant less temps_arrivee
Admission(l, i) == veh[l][i].temps_arrivee + veh[l][i].temps_attente

PhaseNo(k) ==
    CASE k % 5 = 1 -> "S1" [] k % 5 = 2 -> "S2" [] k % 5 = 3 -> "S3"
      [] k % 5 = 4 -> "S4" [] k % 5 = 0 -> "S5"

\* the time of the k-th phase entry as the configuration alone fixes it:
\* the sum of the durations of the phases before it
RECURSIVE HeureEntree(_)
HeureEntree(k) == IF k <= 1 THEN 0 ELSE HeureEntree(k - 1) + Duree(PhaseNo(k - 1))

\* C32: the sequence of phase transitions and their times depend on the
\* configuration only: under every pattern of arrivals, queue lengths and
\* crossings the k-th recorded transition is the k-th phase at the time
\* the durations fix, the next one is never overdue, and a step of a
\* generator or of a vehicle leaves the controller and its pending
\* wake-up as they are.
C32_SignalIndependentOfTraffic ==
    /\ [](/\ \A k \in 1..Len(historique_etats) :
               historique_etats[k] = [temps |-> HeureEntree(k), etat |-> PhaseNo(k)]
          /\ historique_etats # <<>> => now <= HeureEntree(Len(historique_etats) + 1))
    /\ [][(gen_vars' # gen_vars \/ lane_vars' # lane_vars) =>
            /\ UNCHANGED feux_vars
            /\ \A k \in 1..Len(queue) :
                  queue[k].proc = "feux" =>
                      \E m \in 1..Len(queue') :
                          /\ queue'[m].proc = "feux"
                          /\ queue'[m].type = queue[k].type
                          /\ queue'[m].time = queue[k].time]_vars

C32_Witness ==
    /\ Len(historique_etats) >= 7
    /\ \A l \in Lanes : vehicules_total[l] >= 1
    /\ \E l \in Lanes : Len(file[l]) >= 2
    /\ \E l \in Lanes : Crossing(l) # {}

\* the wraps S5 -> S1 recorded so far
Retours == {k \in 2..Len(historique_etats) :
               historique_etats[k - 1].etat = "S5" /\ historique_etats[k].etat = "S1"}

\* C33: nombre_cycles never decreases, goes up by exactly 1 at each wrap
\* from S5 to S1 and at no other step, and always equals the number of
\* wraps S5 -> S1 made so far (the first entry into S1 does not count).
C33_CycleCounter ==
    /\ [](nombre_cycles = Cardinality(Retours))
    /\ [][/\ nombre_cycles' >= nombre_cycles
          /\ nombre_cycles' <= nombre_cycles + 1
          /\ nombre_cycles' = nombre_cycles + 1 <=>
                (etat_actuel = "S5" /\ Len(historique_etats') = Len(historique_etats) + 1
                    /\ etat_actuel' = "S1")]_vars

C33_Witness ==
    /\ nombre_cycles >= 2
    /\ etat_actuel = "S4"
    /\ now > 0

\* the stop events of the run in progress and the limit it was given
Arrets(q) == {k \in 1..Len(q) : q[k].type = "Until"}
Limite(q) == q[CHOOSE k \in Arrets(q) : TRUE].time

\* C34: a run to the absolute limit T returns with the clock at T, and
\* the snapshot taken after it reports temps_simulation = T, also when
\* nothing else is scheduled at T.
C34_ClockAtLimit ==
    /\ [](/\ running => Cardinality(Arrets(queue)) = 1
          /\ stats.source = "feux" => (~running /\ stats.temps_simulation = now))
    /\ [][running =>
            /\ running' => Limite(queue') = Limite(queue)
            /\ (~running' /\ erreur' = "") => now' = Limite(queue)]_vars

C34_Witness ==
    /\ stats.source = "feux"
    /\ stats.temps_simulation > 0
    /\ \A k \in 1..Len(queue) : queue[k].time > now
    /\ historique_etats[Len(historique_etats)].temps < now
    /\ \A l \in Lanes : \A i \in VehIds :
          /\ veh[l][i].temps_arrivee # now
          /\ veh[l][i].temps_depart # now

\* C35: duree_cycle is the sum of the five durations gerer_cycle waits in
\* one pass of its loop: two consecutive entries into S1 are exactly
\* duree_cycle apart, for every configuration (76 for 30/3/25/3/15 and
\* for 28/3/28/3/14).
C35_CycleLengthIsSumOfPhases ==
    /\ \A k \in 1..(Len(historique_etats) - 5) :
          historique_etats[k].etat = "S1" =>
              /\ historique_etats[k + 5].etat = "S1"
              /\ historique_etats[k + 5].temps = historique_etats[k].temps + duree_cycle(config)
    /\ duree_cycle(config) = Duree("S1") + Duree("S2") + Duree("S3") + Duree("S4") + Duree("S5")
    /\ duree_cycle([duree_vert_a |-> 30, duree_vert_b |-> 25,
                    duree_jaune |-> 3, duree_pietons |-> 15]) = 76
    /\ duree_cycle([duree_vert_a |-> 28, duree_vert_b |-> 28,
                    duree_jaune |-> 3, duree_pietons |-> 14]) = 76

C35_Witness ==
    /\ nombre_cycles >= 1
    /\ etat_actuel = "S2"
    /\ config.duree_jaune > 0
    /\ config.duree_vert_a # config.duree_vert_b
    /\ config.duree_pietons > 0

\* C36: every phase entry is recorded: once the controller has started,
\* historique_etats is non-empty and begins with S1 at time 0, consecutive
\* entries follow the cycle with non-decreasing times, the last entry is
\* the current phase, and each step of the controller appends the phase
\* it enters with the clock time.
C36_EveryPhaseEntryRecorded ==
    /\ [](pc_feux # "init" =>
            /\ historique_etats # <<>>
            /\ historique_etats[1] = [temps |-> 0, etat |-> "S1"]
            /\ \A k \in 1..(Len(historique_etats) - 1) :
                  /\ historique_etats[k + 1].etat = Suivant(historique_etats[k].etat)
                  /\ historique_etats[k + 1].temps >= historique_etats[k].temps
            /\ historique_etats[Len(historique_etats)].etat = etat_actuel)
    /\ [][(pc_feux' # pc_feux \/ etat_actuel' # etat_actuel) =>
            historique_etats' =
                Append(historique_etats, [temps |-> now', etat |-> etat_actuel'])]_vars

C36_Witness ==
    /\ Len(historique_etats) >= 7
    /\ historique_etats[3].temps = historique_etats[2].temps
    /\ historique_etats[2].temps > 0
    /\ now > historique_etats[Len(historique_etats)].temps

\* the three colours obtenir_etat returns
obtenir_etat == <<feu_a, feu_b, feu_pietons>>

\* the colours each phase stands for (the comments of EtatSysteme)
Couleurs(e) ==
    CASE e = "S1" -> <<"VERT", "ROUGE", "ROUGE">>
      [] e = "S2" -> <<"JAUNE", "ROUGE", "ROUGE">>
      [] e = "S3" -> <<"ROUGE", "VERT", "ROUGE">>
      [] e = "S4" -> <<"ROUGE", "JAUNE", "ROUGE">>
      [] e = "S5" -> <<"ROUGE", "ROUGE", "VERT">>

\* C37: whenever a process has yielded, the three colours are the ones of
\* the current phase; in particular at most one light is not red.
C37_LightsFunctionOfPhase ==
    /\ obtenir_etat = Couleurs(etat_actuel)
    /\ Cardinality({k \in 1..3 : obtenir_etat[k] # "ROUGE"}) <= 1

C37_Witness ==
    /\ etat_actuel = "S4"
    /\ feu_b = "JAUNE"
    /\ nombre_cycles >= 1
    /\ now > historique_etats[Len(historique_etats)].temps

\* the work of the current instant is done: nothing is due at the clock time
InstantFini == \A k \in 1..Len(queue) : queue[k].time > now

\* C38: per lane, the vehicles of the generator's list whose temps_depart
\* is set (nombre_servis of its statistics) are as many as the queue's
\* nombre_vehicules_servis, and the generator's counter equals the
\* intersection's vehicules_total once the work of the instant is done
\* and whenever a run has returned.
C38_ServedCountsAgree ==
    \A l \in Lanes :
        /\ Cardinality({k \in 1..Len(vehicules[l]) : Departed(l, vehicules[l][k])})
              = nombre_vehicules_servis[l]
        /\ vehicules[l] # <<>> => calculer_stats(l).nombre_servis = nombre_vehicules_servis[l]
        /\ (InstantFini \/ ~running) => compteur[l] = vehicules_total[l]

C38_Witness ==
    /\ InstantFini /\ running
    /\ \A l \in Lanes : compteur[l] >= 1
    /\ \E l \in Lanes :
          /\ nombre_vehicules_servis[l] >= 1
          /\ compteur[l] > nombre_vehicules_servis[l]

\* C39: in the interactive visual simulation a vehicle process passes its
\* colour check, and announces 'passer', only while _gerer_feux is in the
\* green phase of its lane, whatever the interleaving of the simulation
\* thread and the render thread.
C39_ColourNeverStale ==
    [][\A l \in Lanes : \A i \in VehIds :
          /\ (veh[l][i].pc \in {"init", "poll"} /\ veh'[l][i].pc = "request")
                => pc_feux = EtatVert(l)
          /\ (veh[l][i].pc = "request" /\ veh'[l][i].pc = "crossing")
                => pc_feux = EtatVert(l)]_vars

\* C40: in the Tasnim visual simulation the generator of a lane keeps
\* producing vehicles while an earlier vehicle of that lane still waits
\* for green (which is what lets the number waiting exceed 1): while a
\* vehicle waits, the next arrival of its lane is pending.
C40_QueuesLengthen ==
    \A l \in Lanes :
        ((\E i \in VehIds : veh[l][i].pc = "poll") /\ compteur[l] < MaxVeh)
            => \E k \in 1..Len(queue) :
                   /\ queue[k].type = "Timeout" /\ queue[k].proc = "gen" /\ queue[k].lane = l
                   /\ pc_gen[l] = "attente"

====
